---- MODULE Spec2Model ----
(***************************************************************************)
(* The chat screen of testing_expo (HomeScreen, Gemini variant) and its    *)
(* host configuration (app.config.js), as a state machine.                 *)
(*                                                                         *)
(* Strings are sequences of chunks: a typed character is a one-character   *)
(* chunk, a string literal of the source is a single chunk.  A JavaScript  *)
(* value is a record [type, val]; val is the chunk sequence of a string    *)
(* or the one-chunk spelling of a number.                                  *)
(*                                                                         *)
(* Handlers run the closures of the committed render (view) and update    *)
(* the state through the setters.  The state updates of a press or text   *)
(* event are rendered before the next event is dispatched; those made     *)
(* after an await are rendered by a scheduled re-render (Render).         *)
(***************************************************************************)
EXTENDS Integers, Sequences, FiniteSets, TLC

\* ---------------------------------------------------------------- bounds
\* sendMessage invocations that get past the blank check, at most.
MaxSubmits == 2
\* Ungated invocations of sendMessage, at most.
MaxInvokes == 1

\* ------------------------------------------------------ JavaScript values
Undefined == [type |-> "undefined", val |-> <<>>]
Null == [type |-> "null", val |-> <<>>]
Str(s) == [type |-> "string", val |-> s]
Num(n) == [type |-> "number", val |-> <<n>>]

\* ToBoolean: "", 0, null and undefined are falsy, everything else truthy.
Truthy(v) ==
  CASE v.type = "string" -> v.val # <<>>
    [] v.type = "number" -> v.val # <<"0">>
    [] OTHER -> FALSE

\* a || b
Or(a, b) == IF Truthy(a) THEN a ELSE b

\* ----------------------------------------------------------------- drafts
Whitespace == {" "}

\* The texts the user types: empty, whitespace only, and a text with a
\* trailing blank.
Drafts == {<<>>, <<" ", " ">>, <<"h", "i", " ">>}

RECURSIVE trimStart(_)
trimStart(s) ==
  IF s # <<>> /\ Head(s) \in Whitespace THEN trimStart(Tail(s)) ELSE s

RECURSIVE trimEnd(_)
trimEnd(s) ==
  IF s # <<>> /\ s[Len(s)] \in Whitespace
  THEN trimEnd(SubSeq(s, 1, Len(s) - 1))
  ELSE s

\* String.prototype.trim
trim(s) == trimEnd(trimStart(s))

\* ------------------------------------------------------------ fixed texts
SeedText == <<"Hello! How can I help you today?">>
MissingKeyText ==
  <<"API key not configured. Please add your Gemini API key to the app configuration.">>
NoResponseText == <<"Sorry, I couldn't generate a response.">>
ErrorText ==
  <<"Sorry, there was an error processing your request. Please try again later.">>
FallbackApiKey == <<"FALLBACK_API_KEY">>

\* ------------------------------------------------------ host configuration
\* What .env.js may export as GEMINI_API_KEY: nothing, "" or a key.
EnvKeys == {Undefined, Str(<<>>), Str(<<"KEY">>)}

\* app.config.js: extra.geminiApiKey
geminiApiKey(envKey) == Or(envKey, Str(FallbackApiKey))

\* Constants.expoConfig?.extra?.geminiApiKey; expoConfig is null when the
\* runtime hands over no manifest.
readApiKey(config, envKey) ==
  IF config = "null" THEN Undefined ELSE geminiApiKey(envKey)

\* ---------------------------------------------------------- remote outcomes
\* The steps of responseData?.candidates?.[0]?.content?.parts?.[0]?.text
PathLen == 6
Statuses == {200, 500}
\* Response.ok
ok(status) == status >= 200 /\ status <= 299

\* The values the service may put at the end of the path.
PayloadTexts ==
  {Undefined, Null, Str(<<>>), Str(<<"Hello back">>), Num("0"), Num("42")}

Outcome(f, st, b, n, t) ==
  [fetch |-> f, status |-> st, body |-> b, steps |-> n, text |-> t]

\* callGeminiApi returned before calling fetch.
NoFetch == Outcome("none", 0, "none", 0, Undefined)
FetchRejects == Outcome("rejects", 0, "none", 0, Undefined)

Outcomes ==
  {FetchRejects}
  \cup {Outcome("responds", st, "garbled", 0, Undefined) : st \in Statuses}
  \cup {Outcome("responds", st, "json", 0, Undefined) : st \in Statuses}
  \cup {Outcome("responds", 200, "json", n, Undefined) : n \in 1..(PathLen - 1)}
  \cup {Outcome("responds", 200, "json", PathLen, t) : t \in PayloadTexts}

\* The optional chain: undefined as soon as a step is missing.
extractText(o) == IF o.steps < PathLen THEN Undefined ELSE o.text

\* ------------------------------------------------------------ the resolver
Return(v) == [kind |-> "return", value |-> v]
Throw == [kind |-> "throw", value |-> Undefined]

\* callGeminiApiTry without the response.ok check.
callGeminiApiTryNoStatusCheck(key, o) ==
  IF ~Truthy(key) THEN Return(Str(MissingKeyText))
  ELSE IF o.fetch # "responds" THEN Throw
  ELSE IF o.body # "json" THEN Throw
  ELSE Return(Or(extractText(o), Str(NoResponseText)))

\* callGeminiApiTry with ?? in place of || before the fallback text.
callGeminiApiTryNullish(key, o) ==
  IF ~Truthy(key) THEN Return(Str(MissingKeyText))
  ELSE IF o.fetch # "responds" THEN Throw
  ELSE IF ~ok(o.status) THEN Throw
  ELSE IF o.body # "json" THEN Throw
  ELSE Return(IF extractText(o) \in {Undefined, Null}
              THEN Str(NoResponseText) ELSE extractText(o))

\* The try block of callGeminiApi: what it returns, or that it throws.
callGeminiApiTry(key, o) ==
  IF ~Truthy(key) THEN Return(Str(MissingKeyText))
  ELSE IF o.fetch # "responds" THEN Throw
  ELSE IF ~ok(o.status) THEN Throw
  ELSE IF o.body # "json" THEN Throw
  ELSE Return(Or(extractText(o), Str(NoResponseText)))

\* callGeminiApi without its catch block.
callGeminiApiNoCatch(key, o) == callGeminiApiTry(key, o)

callGeminiApi(key, o) ==
  LET r == callGeminiApiTry(key, o)
  IN IF r.kind = "throw" THEN Return(Str(ErrorText)) ELSE r

\* Whether callGeminiApi reaches its fetch call.
callsFetch(key) == Truthy(key)

\* ------------------------------------------------------------------ state
VARIABLES
  envKey,       \* GEMINI_API_KEY of .env.js, read by app.config.js
  expoConfig,   \* "loaded" or "null": Constants.expoConfig
  message,      \* useState: the draft
  isLoading,    \* useState: the pending-send flag
  chatHistory,  \* useState: the message log
  view,         \* the committed render: the values its closures and props hold
  calls,        \* sendMessage invocations suspended at their await
  submits,      \* sendMessage invocations that passed the blank check
  fetches,      \* calls of fetch made by sendMessage's callGeminiApi calls
  alerts,       \* calls of Alert.alert made
  invokes,      \* ungated invocations of sendMessage made
  op,           \* the handler that ran last
  settled,      \* the sendMessage call that resumed last, and what its await gave
  probe         \* the last direct call of callGeminiApi: argument, outcome, result

\* The placeholder-response variant of the screen (setTimeout, no isLoading).
VARIABLES
  phMessage,      \* useState: the draft
  phChatHistory,  \* useState: the message log
  phView,         \* the committed render of the variant
  phTimers,       \* setTimeout callbacks not fired yet
  phSubmits       \* sendMessage invocations that passed the blank check

phVars == <<phMessage, phChatHistory, phView, phTimers, phSubmits>>

vars ==
  <<envKey, expoConfig, message, isLoading, chatHistory, view, calls,
    submits, fetches, alerts, invokes, op, settled, probe, phMessage,
    phChatHistory, phView, phTimers, phSubmits>>

GEMINI_API_KEY == readApiKey(expoConfig, envKey)

Seed == [id |-> 1, text |-> Str(SeedText), isBot |-> TRUE]

\* What a render of the current state commits.
rendered(m, l, h) == [message |-> m, isLoading |-> l, chatHistory |-> h]

\* What a render of the placeholder variant commits.
phRendered(m, h) == [message |-> m, chatHistory |-> h]

NoCall == [n |-> 0, userMessageText |-> <<>>, len |-> 0, fetched |-> FALSE]

NoProbe ==
  [n |-> 0, userMessage |-> <<>>, outcome |-> NoFetch, result |-> Throw]

Init ==
  /\ envKey \in EnvKeys
  /\ expoConfig \in {"loaded", "null"}
  /\ message = <<>>
  /\ isLoading = FALSE
  /\ chatHistory = <<Seed>>
  /\ view = rendered(<<>>, FALSE, <<Seed>>)
  /\ calls = {}
  /\ submits = 0
  /\ fetches = 0
  /\ alerts = 0
  /\ invokes = 0
  /\ op = "mount"
  /\ settled = [call |-> NoCall, result |-> Throw]
  /\ probe = NoProbe
  /\ phMessage = <<>>
  /\ phChatHistory = <<Seed>>
  /\ phView = phRendered(<<>>, <<Seed>>)
  /\ phTimers = {}
  /\ phSubmits = 0

\* ---------------------------------------------------------------- the view
\* disabled without the isLoading term.
disabledIgnoringLoading(v) == trim(v.message) = <<>>

\* The send button's disabled prop.
disabled(v) == v.isLoading \/ trim(v.message) = <<>>

\* ------------------------------------------------------------- sendMessage
\* The blank check without trim.
isBlankNoTrim(m) == m = <<>>

\* The guard of sendMessage's first line.
isBlank(m) == trim(m) = <<>>

\* newUserMessage with the trimmed draft as its text.
newUserMessageTrimmed(v) ==
  [id |-> Len(v.chatHistory) + 1, text |-> Str(trim(v.message)),
   isBot |-> FALSE]

newUserMessage(v) ==
  [id |-> Len(v.chatHistory) + 1, text |-> Str(v.message), isBot |-> FALSE]

\* botResponse with the user message's id.
botResponseOffByOne(c, botResponseText) ==
  [id |-> c.len + 1, text |-> botResponseText, isBot |-> TRUE]

\* botResponse marked as a user message.
botResponseAsUser(c, botResponseText) ==
  [id |-> c.len + 2, text |-> botResponseText, isBot |-> FALSE]

botResponse(c, botResponseText) ==
  [id |-> c.len + 2, text |-> botResponseText, isBot |-> TRUE]

\* sendMessageStart that hands callGeminiApi the draft as it is after
\* setMessage(""), not the text stored before clearing.
sendMessageStartClearedText(v) ==
  IF trim(v.message) = <<>>
  THEN UNCHANGED <<message, isLoading, chatHistory, calls, submits, fetches>>
  ELSE /\ isLoading' = TRUE
       /\ chatHistory' =
            Append(chatHistory,
                   [id |-> Len(v.chatHistory) + 1, text |-> Str(v.message),
                    isBot |-> FALSE])
       /\ message' = <<>>
       /\ submits' = submits + 1
       /\ calls' = calls \cup
            {[n |-> submits + 1, userMessageText |-> <<>>,
              len |-> Len(v.chatHistory),
              fetched |-> Truthy(GEMINI_API_KEY)]}
       /\ fetches' = fetches + (IF Truthy(GEMINI_API_KEY) THEN 1 ELSE 0)

\* sendMessage of the render v, up to its await: the closure reads v, the
\* functional update reads the current chatHistory.
sendMessageStart(v) ==
  IF isBlank(v.message)
  THEN UNCHANGED <<message, isLoading, chatHistory, calls, submits, fetches>>
  ELSE /\ isLoading' = TRUE
       /\ chatHistory' = Append(chatHistory, newUserMessage(v))
       /\ message' = <<>>
       /\ submits' = submits + 1
       /\ calls' = calls \cup
            {[n |-> submits + 1, userMessageText |-> v.message,
              len |-> Len(v.chatHistory),
              fetched |-> callsFetch(GEMINI_API_KEY)]}
       /\ fetches' = fetches + (IF callsFetch(GEMINI_API_KEY) THEN 1 ELSE 0)

\* sendMessageResume with setIsLoading(false) at the end of the try block
\* instead of in a finally block.
sendMessageResumeNoFinally(c, r) ==
  /\ chatHistory' =
       IF r.kind = "return"
       THEN Append(chatHistory, botResponse(c, r.value))
       ELSE chatHistory
  /\ alerts' = IF r.kind = "return" THEN alerts ELSE alerts + 1
  /\ isLoading' = IF r.kind = "return" THEN FALSE ELSE isLoading
  /\ calls' = calls \ {c}

\* sendMessageResume with setChatHistory([...chatHistory, botResponse]): the
\* closure's chatHistory, captured before the user message was appended.
sendMessageResumeStaleHistory(c, r) ==
  /\ chatHistory' =
       IF r.kind = "return"
       THEN Append(SubSeq(chatHistory, 1, c.len), botResponse(c, r.value))
       ELSE chatHistory
  /\ alerts' = IF r.kind = "return" THEN alerts ELSE alerts + 1
  /\ isLoading' = FALSE
  /\ calls' = calls \ {c}

\* sendMessageResume with a catch block that only logs.
sendMessageResumeNoAlert(c, r) ==
  /\ chatHistory' =
       IF r.kind = "return"
       THEN Append(chatHistory, botResponse(c, r.value))
       ELSE chatHistory
  /\ alerts' = alerts
  /\ isLoading' = FALSE
  /\ calls' = calls \ {c}

\* sendMessageResume that never calls setIsLoading(false).
sendMessageResumeNoRelease(c, r) ==
  /\ chatHistory' =
       IF r.kind = "return"
       THEN Append(chatHistory, botResponse(c, r.value))
       ELSE chatHistory
  /\ alerts' = IF r.kind = "return" THEN alerts ELSE alerts + 1
  /\ isLoading' = isLoading
  /\ calls' = calls \ {c}

\* sendMessage of call c after its await, r being what the await gave.
sendMessageResume(c, r) ==
  /\ chatHistory' =
       IF r.kind = "return"
       THEN Append(chatHistory, botResponse(c, r.value))
       ELSE chatHistory
  /\ alerts' = IF r.kind = "return" THEN alerts ELSE alerts + 1
  /\ isLoading' = FALSE
  /\ calls' = calls \ {c}

\* ---------------------------------------------------------------- actions
\* setMessage that leaves the draft alone while isLoading is true.
setMessageUnlessLoading(t) == message' = IF isLoading THEN message ELSE t

\* The state setter of message.
setMessage(t) == message' = t

\* The TextInput's editable prop.
editable(v) == ~v.isLoading

\* onChangeText={setMessage} of the editable TextInput, then the re-render
\* the event ends with.
ChangeText ==
  \E t \in Drafts :
    /\ editable(view)
    /\ setMessage(t)
    /\ view' = rendered(t, isLoading, chatHistory)
    /\ op' = "setMessage"
    /\ UNCHANGED <<envKey, expoConfig, isLoading, chatHistory, calls,
                   submits, fetches, alerts, invokes, settled, probe>>
    /\ UNCHANGED phVars

\* onPress={sendMessage} on the enabled button, then the re-render the
\* event ends with.
Press ==
  /\ ~disabled(view)
  /\ submits < MaxSubmits
  /\ sendMessageStart(view)
  /\ view' = rendered(message', isLoading', chatHistory')
  /\ op' = "sendMessage"
  /\ UNCHANGED <<envKey, expoConfig, alerts, invokes, settled, probe>>
  /\ UNCHANGED phVars

\* The remote call of c completes with outcome o; callGeminiApi returns and
\* sendMessage resumes.  The re-render is scheduled, not made.
Resolve ==
  \E c \in calls :
    \E o \in (IF c.fetched THEN Outcomes ELSE {NoFetch}) :
      LET r == callGeminiApi(GEMINI_API_KEY, o)
      IN /\ sendMessageResume(c, r)
         /\ settled' = [call |-> c, result |-> r]
         /\ op' = "resolve"
         /\ UNCHANGED <<envKey, expoConfig, message, view, submits, fetches,
                        invokes, probe>>
         /\ UNCHANGED phVars

\* The scheduled re-render.
Render ==
  /\ view # rendered(message, isLoading, chatHistory)
  /\ view' = rendered(message, isLoading, chatHistory)
  /\ op' = "render"
  /\ UNCHANGED <<envKey, expoConfig, message, isLoading, chatHistory, calls,
                 submits, fetches, alerts, invokes, settled, probe>>
  /\ UNCHANGED phVars

Next == ChangeText \/ Press \/ Resolve \/ Render

Spec == Init /\ [][Next]_vars

\* sendMessage run from the committed render whatever its button's disabled
\* prop says, and with no re-render after it: the next invocation still
\* runs the closures of the same render.
Invoke ==
  /\ invokes < MaxInvokes
  /\ isBlank(view.message) \/ submits < MaxSubmits
  /\ sendMessageStart(view)
  /\ invokes' = invokes + 1
  /\ op' = "sendMessage"
  /\ UNCHANGED <<envKey, expoConfig, view, alerts, settled, probe>>
  /\ UNCHANGED phVars

\* setMessage called whatever the TextInput's editable prop says, then the
\* re-render.
SetMessage ==
  \E t \in Drafts :
    /\ setMessage(t)
    /\ view' = rendered(t, isLoading, chatHistory)
    /\ op' = "setMessage"
    /\ UNCHANGED <<envKey, expoConfig, isLoading, chatHistory, calls,
                   submits, fetches, alerts, invokes, settled, probe>>
    /\ UNCHANGED phVars

NextDirect == Next \/ Invoke \/ SetMessage

\* The screen with sendMessage and setMessage also invoked ungated.
SpecDirect == Init /\ [][NextDirect]_vars

\* The await of sendMessage rejects: its catch and finally run.
AwaitRejects ==
  \E c \in calls :
    /\ sendMessageResume(c, Throw)
    /\ settled' = [call |-> c, result |-> Throw]
    /\ op' = "reject"
    /\ UNCHANGED <<envKey, expoConfig, message, view, submits, fetches,
                   invokes, probe>>
    /\ UNCHANGED phVars

NextFault == Next \/ AwaitRejects

\* The screen with awaits that may reject.
SpecFault == Init /\ [][NextFault]_vars

\* Every suspended call completes, and scheduled re-renders are made.
FairSpecFault ==
  SpecFault /\ WF_vars(Resolve \/ AwaitRejects) /\ WF_vars(Render)

\* callGeminiApi called on its own: with the key the configuration gives,
\* a user message and an outcome of the remote call.
CallGeminiApi ==
  \E userMessage \in Drafts :
    \E o \in (IF callsFetch(GEMINI_API_KEY) THEN Outcomes ELSE {NoFetch}) :
      /\ probe' = [n |-> 1, userMessage |-> userMessage, outcome |-> o,
                   result |-> callGeminiApi(GEMINI_API_KEY, o)]
      /\ op' = "callGeminiApi"
      /\ UNCHANGED <<envKey, expoConfig, message, isLoading, chatHistory,
                     view, calls, submits, fetches, alerts, invokes, settled>>
      /\ UNCHANGED phVars

\* The resolver alone, over every configuration and remote outcome.
SpecResolver == Init /\ [][CallGeminiApi]_vars

\* ------------------------------------------- the placeholder variant
PlaceholderText ==
  <<"This is a placeholder response. API integration will be added later.">>

mainVars ==
  <<envKey, expoConfig, message, isLoading, chatHistory, view, calls,
    submits, fetches, alerts, invokes, settled, probe>>

\* The variant's send button's disabled prop.
phDisabled(v) == trim(v.message) = <<>>

phNewUserMessage(v) ==
  [id |-> Len(v.chatHistory) + 1, text |-> Str(v.message), isBot |-> FALSE]

\* The timer callback's botResponse: chatHistory is the closure's.
phBotResponse(t) ==
  [id |-> t.len + 2, text |-> Str(PlaceholderText), isBot |-> TRUE]

\* The variant's sendMessage of the render v: setChatHistory is given the
\* closure's array, and the timer is set.
phSendMessage(v) ==
  IF isBlank(v.message)
  THEN UNCHANGED <<phMessage, phChatHistory, phTimers, phSubmits>>
  ELSE /\ phChatHistory' = Append(v.chatHistory, phNewUserMessage(v))
       /\ phMessage' = <<>>
       /\ phSubmits' = phSubmits + 1
       /\ phTimers' = phTimers \cup
            {[n |-> phSubmits + 1, len |-> Len(v.chatHistory)]}

\* onChangeText={setMessage}, then the re-render the event ends with.
PhChangeText ==
  \E t \in Drafts :
    /\ phMessage' = t
    /\ phView' = phRendered(t, phChatHistory)
    /\ op' = "setMessage"
    /\ UNCHANGED <<phChatHistory, phTimers, phSubmits>>
    /\ UNCHANGED mainVars

\* onPress={sendMessage} on the enabled button, then the re-render the
\* event ends with.
PhPress ==
  /\ ~phDisabled(phView)
  /\ phSubmits < MaxSubmits
  /\ phSendMessage(phView)
  /\ phView' = phRendered(phMessage', phChatHistory')
  /\ op' = "sendMessage"
  /\ UNCHANGED mainVars

\* The oldest timer fires (all have the same delay): its callback appends
\* through a functional update.  The re-render is scheduled, not made.
PhTimeout ==
  \E t \in phTimers :
    /\ \A u \in phTimers : t.n <= u.n
    /\ phChatHistory' = Append(phChatHistory, phBotResponse(t))
    /\ phTimers' = phTimers \ {t}
    /\ op' = "timeout"
    /\ UNCHANGED <<phMessage, phView, phSubmits>>
    /\ UNCHANGED mainVars

\* The scheduled re-render.
PhRender ==
  /\ phView # phRendered(phMessage, phChatHistory)
  /\ phView' = phRendered(phMessage, phChatHistory)
  /\ op' = "render"
  /\ UNCHANGED <<phMessage, phChatHistory, phTimers, phSubmits>>
  /\ UNCHANGED mainVars

NextPlaceholder == PhChangeText \/ PhPress \/ PhTimeout \/ PhRender

\* The placeholder variant of the screen.
SpecPlaceholder == Init /\ [][NextPlaceholder]_vars

\* ------------------------------------------------------------------ claims
Last(h) == h[Len(h)]

\* C1: isLoading is true exactly when one callGeminiApi invocation is
\* outstanding, and never more than one is outstanding.
C1_SingleFlight ==
  /\ Cardinality(calls) <= 1
  /\ isLoading <=> Cardinality(calls) = 1

\* C1 witness: the call of the second submit is outstanding, that of the
\* first has completed, and the button is rendered disabled.
C1_Witness ==
  /\ isLoading
  /\ Cardinality(calls) = 1
  /\ submits = 2
  /\ op = "sendMessage"
  /\ disabled(view)

\* C2: sendMessage invoked while isLoading is true changes nothing and
\* starts no call.
C2_SubmitWhileAwaitingIsNoOp ==
  [][(isLoading /\ op' = "sendMessage")
       => UNCHANGED <<chatHistory, message, isLoading, calls, fetches>>]_vars

\* C3: sendMessage invoked with an empty or whitespace-only draft changes
\* nothing: history, flag and draft stay and no call is started.
C3_BlankSubmitIsNoOp ==
  [][(op' = "sendMessage" /\ trim(view.message) = <<>>)
       => UNCHANGED <<chatHistory, isLoading, message, calls, submits,
                      fetches>>]_vars

\* C3 witness: sendMessage has run on a whitespace-only draft.
C3_Witness ==
  /\ op = "sendMessage"
  /\ view.message = <<" ", " ">>
  /\ message = <<" ", " ">>
  /\ chatHistory = <<Seed>>
  /\ ~isLoading

\* The step that sets isLoading back to false appends one assistant message
\* after the user message of its submit.
OneReplyAppended ==
  /\ ~Last(chatHistory).isBot
  /\ Len(chatHistory') = Len(chatHistory) + 1
  /\ SubSeq(chatHistory', 1, Len(chatHistory)) = chatHistory
  /\ Last(chatHistory').isBot

\* C4 as stated: after a submit isLoading returns to false, and the step
\* that releases it has appended exactly one assistant message, whether the
\* awaited call returned or rejected.
C4_AlwaysOneReply ==
  /\ isLoading ~> ~isLoading
  /\ [][(isLoading /\ ~isLoading') => OneReplyAppended]_vars

\* C4 amended: after a submit isLoading returns to false; the step that
\* releases it has appended exactly one assistant message when the awaited
\* call returned, and none (an alert instead) when it rejected.
C4_OneReplyUnlessRejected ==
  /\ isLoading ~> ~isLoading
  /\ [][(isLoading /\ ~isLoading') =>
          IF settled'.result.kind = "return"
          THEN OneReplyAppended /\ alerts' = alerts
          ELSE chatHistory' = chatHistory /\ alerts' = alerts + 1]_vars

\* C4 witness: a turn ended by a rejected await, and the flag is released.
C4_Witness ==
  /\ op = "reject"
  /\ ~isLoading
  /\ alerts = 1
  /\ Len(chatHistory) = 2

\* C5: the message at position i of chatHistory has id i.
C5_IdIsPosition == \A i \in 1..Len(chatHistory) : chatHistory[i].id = i

\* C5 witness: two full turns have been appended.
C5_Witness ==
  /\ op = "resolve"
  /\ Len(chatHistory) = 5
  /\ chatHistory[5].isBot

\* C6: with n accepted submits, chatHistory holds 1 + 2n messages when no
\* reply is awaited and 2n while one is.
C6_HistoryLength ==
  /\ ~isLoading => Len(chatHistory) = 1 + 2 * submits
  /\ isLoading => Len(chatHistory) = 2 * submits

\* C6 witness: the second turn is complete.
C6_Witness == submits = 2 /\ ~isLoading /\ Len(chatHistory) = 5

\* C7: whatever the remote call does, callGeminiApi completes by returning
\* a non-empty string.
C7_ResolverReturnsDisplayString ==
  probe.n # 0 =>
    /\ probe.result.kind = "return"
    /\ probe.result.value.type = "string"
    /\ probe.result.value.val # <<>>

\* C8: when .env.js supplies no key (absent or empty), no fetch is made and
\* every completed call returned the missing-key text.
C8_NoCredentialNoNetwork ==
  ~Truthy(envKey) =>
    /\ fetches = 0
    /\ settled.call.n # 0 => settled.result = Return(Str(MissingKeyText))

NonOkProbe ==
  /\ probe.n # 0
  /\ probe.outcome.fetch = "responds"
  /\ ~ok(probe.outcome.status)

\* C9 as stated: a non-2xx response makes callGeminiApi return a fallback
\* string of its own, different from the missing-key text and from the text
\* returned when fetch rejects.
C9_ServiceErrorOwnString ==
  NonOkProbe =>
    /\ probe.result.kind = "return"
    /\ probe.result.value.type = "string"
    /\ probe.result.value # Str(MissingKeyText)
    /\ probe.result # callGeminiApi(GEMINI_API_KEY, FetchRejects)

\* C9 amended: a non-2xx response makes callGeminiApi return the error
\* text, which is the text returned when fetch rejects and is not the
\* missing-key text; nothing is thrown.
C9_ServiceErrorSharesFallback ==
  NonOkProbe =>
    /\ probe.result = Return(Str(ErrorText))
    /\ probe.result = callGeminiApi(GEMINI_API_KEY, FetchRejects)
    /\ probe.result.value # Str(MissingKeyText)

\* C9 witness: a call completed on an HTTP 500 response.
C9_Witness == NonOkProbe /\ probe.outcome.status = 500 /\ op = "callGeminiApi"

\* C10: an accepted submit appends one user message with the draft verbatim
\* and id = previous length + 1, clears the draft, sets isLoading, starts
\* one call with that text and keeps the earlier messages; from the seed
\* state the history becomes [seed, {2, draft, user}].
C10_AcceptedSubmit ==
  [][(op' = "sendMessage" /\ ~isLoading /\ trim(message) # <<>>) =>
       /\ chatHistory' =
            Append(chatHistory,
                   [id |-> Len(chatHistory) + 1, text |-> Str(message),
                    isBot |-> FALSE])
       /\ message' = <<>>
       /\ isLoading'
       /\ Cardinality(calls' \ calls) = 1
       /\ calls \subseteq calls'
       /\ \A c \in calls' \ calls : c.userMessageText = message
       /\ (chatHistory = <<Seed>> =>
             chatHistory' =
               <<Seed, [id |-> 2, text |-> Str(message), isBot |-> FALSE]>>)
    ]_vars

\* C10 witness: submit("hi ") from the seed state.
C10_Witness ==
  /\ op = "sendMessage"
  /\ chatHistory =
       <<Seed, [id |-> 2, text |-> Str(<<"h", "i", " ">>), isBot |-> FALSE]>>
  /\ isLoading
  /\ message = <<>>
  /\ Cardinality(calls) = 1

\* C11: the assistant message appended when a call resumes has the id
\* chatHistory length at that append + 1, so it equals its position even
\* when another append came between the submit and the resumption.
C11_ReplyIdFromLengthAtAppend ==
  [][(op' = "resolve" /\ Len(chatHistory') = Len(chatHistory) + 1)
       => Last(chatHistory').id = Len(chatHistory) + 1]_vars

IsPrefix(s, t) == Len(s) <= Len(t) /\ SubSeq(t, 1, Len(s)) = s

\* C12: across every step the previous chatHistory is a prefix of the next
\* one, and a step appends at most one message.
C12_AppendOnly ==
  [][/\ IsPrefix(chatHistory, chatHistory')
     /\ Len(chatHistory') <= Len(chatHistory) + 1]_vars

\* C12 witness: a turn that ended on the failure path, then a full turn.
C12_Witness ==
  /\ op = "resolve"
  /\ alerts = 1
  /\ Len(chatHistory) = 4
  /\ ~chatHistory[2].isBot /\ ~chatHistory[3].isBot /\ chatHistory[4].isBot

\* C13: in the placeholder variant every message has the id of its
\* position, and every submitted user message is in the history, whatever
\* the interleaving of submits and timer firings.
C13_PlaceholderIdIsPosition ==
  /\ \A i \in 1..Len(phChatHistory) : phChatHistory[i].id = i
  /\ Cardinality({i \in 1..Len(phChatHistory) : ~phChatHistory[i].isBot})
       = phSubmits

\* C14: the step on which the await of sendMessage rejects raises one alert,
\* sets isLoading to false and appends nothing; after it the rendered screen
\* stops showing the pending state, so that a later submit is accepted.
C14_RejectedAwaitReleases ==
  /\ [][op' = "reject" =>
          /\ alerts' = alerts + 1
          /\ ~isLoading'
          /\ chatHistory' = chatHistory]_vars
  /\ (op = "reject") ~> ~view.isLoading

\* C14 witness: a submit accepted after a turn that ended by a rejected await.
C14_Witness ==
  /\ op = "sendMessage"
  /\ alerts = 1
  /\ submits = 2
  /\ isLoading
  /\ Len(chatHistory) = 3

SuccessProbe ==
  /\ probe.n # 0
  /\ probe.outcome.fetch = "responds"
  /\ ok(probe.outcome.status)
  /\ probe.outcome.body = "json"

\* C15: on a 2xx response with a JSON body callGeminiApi returns the text at
\* the end of the path when every step is there and the text is a non-empty
\* string, and returns the no-response text (not the error text, and nothing
\* thrown) when a step is missing or the text is undefined, null or empty.
C15_ResponseExtraction ==
  SuccessProbe =>
    LET o == probe.outcome
    IN /\ (o.steps = PathLen /\ o.text.type = "string" /\ o.text.val # <<>>)
            => probe.result = Return(o.text)
       /\ (o.steps < PathLen \/ o.text \in {Undefined, Null, Str(<<>>)})
            => /\ probe.result = Return(Str(NoResponseText))
               /\ probe.result # Return(Str(ErrorText))

\* C15 witness: a call completed on a 2xx response whose text is empty.
C15_Witness ==
  /\ SuccessProbe
  /\ op = "callGeminiApi"
  /\ probe.outcome.steps = PathLen
  /\ probe.outcome.text = Str(<<>>)
  /\ probe.result = Return(Str(NoResponseText))

\* C16: in every state setMessage can be called with any text and makes it
\* the draft, awaiting or not; a step of setMessage changes neither
\* chatHistory nor isLoading and starts no call.
C16_SetMessageReplacesDraft ==
  /\ [](\A t \in Drafts : ENABLED (SetMessage /\ message' = t))
  /\ [][op' = "setMessage" =>
          /\ message' \in Drafts
          /\ UNCHANGED <<chatHistory, isLoading, calls, submits, fetches,
                         alerts>>]_vars

\* C16 witness: the draft replaced by a blank text while a reply is awaited.
C16_Witness ==
  /\ op = "setMessage"
  /\ isLoading
  /\ calls # {}
  /\ message = <<" ", " ">>
  /\ Len(chatHistory) = 2

\* The rendered button against the state: disabled exactly when the draft
\* trimmed is empty or isLoading is true.
ButtonGate == disabled(view) <=> (trim(message) = <<>> \/ isLoading)

\* The same for the placeholder variant, where a reply is awaited while a
\* timer is pending.
PhButtonGate ==
  phDisabled(phView) <=> (trim(phMessage) = <<>> \/ phTimers # {})

\* C17: in every reachable state, of either variant of the screen, the send
\* button is disabled exactly when the draft trimmed is empty or a reply is
\* awaited.
C17_ButtonDisabledIffGate == ButtonGate /\ PhButtonGate

\* C18: on the screen driven through its button, with awaits that do not
\* reject, the origins in chatHistory alternate from the assistant seed on;
\* the last message is a user message exactly while isLoading is true.
C18_OriginsAlternate ==
  /\ chatHistory[1].isBot
  /\ \A i \in 1..(Len(chatHistory) - 1) :
       chatHistory[i].isBot # chatHistory[i + 1].isBot
  /\ isLoading <=> ~Last(chatHistory).isBot

\* C18 witness: the second turn awaiting its reply.
C18_Witness ==
  /\ op = "sendMessage"
  /\ isLoading
  /\ Len(chatHistory) = 4
  /\ chatHistory[3].isBot

\* C19: every assistant message after the seed directly follows a user
\* message; the step that appends it is the resumption of the call started
\* by the submit that appended that user message, with that message's text,
\* its text is what that call returned, and the call resumes only once.
C19_ReplyAnswersPrecedingUser ==
  /\ [](\A i \in 2..Len(chatHistory) :
          chatHistory[i].isBot => ~chatHistory[i - 1].isBot)
  /\ [][op' = "resolve" =>
          LET n == Len(chatHistory')
              c == settled'.call
          IN /\ n = Len(chatHistory) + 1
             /\ chatHistory'[n].isBot
             /\ chatHistory'[n].text = settled'.result.value
             /\ ~chatHistory'[n - 1].isBot
             /\ n - 1 = c.len + 1
             /\ chatHistory'[n - 1].text = Str(c.userMessageText)
             /\ c \in calls
             /\ c \notin calls']_vars

\* C19 witness: two turns answered differently, each reply after its own
\* user message.
C19_Witness ==
  /\ op = "resolve"
  /\ settled.call.n = 2
  /\ Len(chatHistory) = 5
  /\ chatHistory[3].text = Str(ErrorText)
  /\ chatHistory[5].text = Str(<<"Hello back">>)
  /\ chatHistory[4].text = Str(settled.call.userMessageText)

====
